---- MODULE Spec2Model ----
(***************************************************************************)
(* Model of src/index.js: the WhatsApp session lifecycle                   *)
(* (initializeWhatsAppClient and the four client event handlers), the      *)
(* GET /link-device handler and the POST /send-messages send loop.         *)
(*                                                                         *)
(* Node runs every handler to its next `await` without interruption, so    *)
(* one action is one run of a handler (or of the continuation after an     *)
(* await) up to the next suspension point.  A promise that settles and the *)
(* continuation that awaits it are one action: the continuation is a       *)
(* microtask and runs before any other event, timer or request.            *)
(*                                                                         *)
(* The whatsapp-web.js Client object is outside the repository.  It is     *)
(* modelled by what index.js can observe of it: the promise returned by    *)
(* initialize(), the four events it emits, its `info` property (set by the *)
(* library before it emits "ready") and the promise of sendMessage().      *)
(***************************************************************************)
EXTENDS Integers, Sequences, FiniteSets, TLC

\* ------------------------------------------------------------- bounds
\* Number of GET /link-device requests made during a run.
NumLinkReqs == 1
\* Number of POST /send-messages requests made during a run.
NumSendReqs == 1
\* Longest recipient list an uploaded sheet yields.
MaxRecipients == 2

\* --------------------------------------------------------- constants
\* await delay(15000)
DelayMs == 15000

\* Callers of initializeWhatsAppClient: 0 is the call at the end of the
\* script (line 177), r >= 1 is the GET /link-device request r.
StartupCall == 0
LinkReqs == 1..NumLinkReqs
Callers == {StartupCall} \cup LinkReqs
SendReqs == 1..NumSendReqs
\* The send requests of a run in which one more request arrives.
OverlapSendReqs == 1..(NumSendReqs + 1)

\* Every call of initializeWhatsAppClient constructs at most one Client.
MaxSessions == NumLinkReqs + 1
Sessions == 1..MaxSessions

\* What parseExcelFile can return: the sheet's numeric cells in row order.
\* The cell of data row i holds the number Numbers[i].
Numbers == [i \in 1..MaxRecipients |-> i]
NumberLists == {SubSeq(Numbers, 1, n) : n \in 0..MaxRecipients}

\* The caller recorded for a Client object that does not exist yet.
NoCaller == -1
\* `client` is undefined (line 17) or null: both are falsy, both modelled as 0.
NoClient == 0
\* qrCodeContent = null
NoQr == "null"
\* The strings the library can hand to a "qr" handler.
QrCodes == {"2@qr1", "2@qr2"}

VARIABLES
    client,                 \* let client: NoClient or the current Client object
    isClientInitializing,   \* let isClientInitializing
    qrCodeContent,          \* let qrCodeContent
    sess,                   \* the Client objects constructed so far
    nsess,                  \* how many Client objects were constructed
    initpc,                 \* per caller: where its initializeWhatsAppClient call is
    linkRes,                \* per link request: the responses written to res
    emitted,                \* what the last step passed to io.emit, in order
    sendpc,                 \* per send request: where the handler is
    mobileNumbers,          \* per send request: const mobileNumbers
    index,                  \* per send request: the loop's index (0-based)
    sends,                  \* per send request: the client.sendMessage calls made
    delays,                 \* per send request: the delay(ms) calls made
    sendRes                 \* per send request: the responses written to res

vars == <<client, isClientInitializing, qrCodeContent, sess, nsess, initpc,
          linkRes, emitted, sendpc, mobileNumbers, index, sends, delays, sendRes>>

sessionVars == <<client, isClientInitializing, qrCodeContent, sess, nsess, initpc>>
pipelineVars == <<sendpc, mobileNumbers, index, sends, delays, sendRes>>

\* A Client object nobody has constructed yet.
NoSession == [phase |-> "none", info |-> FALSE, init |-> "none", caller |-> NoCaller]
\* new Client({ authStrategy: new LocalAuth() }), then client.initialize() called by c.
NewSession(c) == [phase |-> "starting", info |-> FALSE, init |-> "pending", caller |-> c]

\* Mutant: the readiness test forgets client.info (only `!client`).
Ready_ClientOnly == client # NoClient

\* Mutant: the readiness test of line 120 is missing.
Ready_NoTest == TRUE

\* The readiness test of line 120, negated: client && client.info.
Ready == client # NoClient /\ sess[client].info

\* The session state of the specification, read off the three globals.
State ==
    IF client = NoClient THEN "Absent"
    ELSE IF sess[client].info THEN "Ready"
    ELSE IF qrCodeContent # NoQr THEN "AwaitingScan"
    ELSE "Initializing"

Init ==
    /\ client = NoClient
    /\ isClientInitializing = FALSE
    /\ qrCodeContent = NoQr
    /\ sess = [s \in Sessions |-> NoSession]
    /\ nsess = 0
    /\ initpc = [c \in Callers |-> "new"]
    /\ linkRes = [r \in LinkReqs |-> <<>>]
    /\ emitted = <<>>
    /\ sendpc = [p \in OverlapSendReqs |-> "new"]
    /\ mobileNumbers = [p \in OverlapSendReqs |-> <<>>]
    /\ index = [p \in OverlapSendReqs |-> 0]
    /\ sends = [p \in OverlapSendReqs |-> <<>>]
    /\ delays = [p \in OverlapSendReqs |-> <<>>]
    /\ sendRes = [p \in OverlapSendReqs |-> <<>>]

\* The server handles requests and events once the script has run to its end.
Started == initpc[StartupCall] # "new"

\* ------------------------------------------------ initializeWhatsAppClient
\* Lines 43-73: construct the Client, register the handlers, call
\* client.initialize() and suspend on its promise.
ConstructClient(c) ==
    /\ nsess' = nsess + 1
    /\ client' = nsess + 1
    /\ sess' = [sess EXCEPT ![nsess + 1] = NewSession(c)]
    /\ initpc' = [initpc EXCEPT ![c] = "awaitInitialize"]

\* Mutant: the guard test of line 29 is missing.
GuardBlocks_Never == FALSE

\* Lines 29-32: the guard.
GuardBlocks == isClientInitializing

\* Mutant: the guard is released on every way out of the function (a
\* `finally`), the early return of line 31 included.
initializeWhatsAppClient_ReturnReleasesGuard(c) ==
    IF GuardBlocks
    THEN /\ initpc' = [initpc EXCEPT ![c] = "returned"]
         /\ isClientInitializing' = FALSE
         /\ UNCHANGED <<client, sess, nsess>>
    ELSE /\ isClientInitializing' = TRUE
         /\ IF client # NoClient
            THEN /\ initpc' = [initpc EXCEPT ![c] = "awaitDestroy"]
                 /\ UNCHANGED <<client, sess, nsess>>
            ELSE ConstructClient(c)

\* Lines 28-73, from the call to its first suspension point, or to its
\* return when the guard ignores the call (initpc = "returned").
initializeWhatsAppClient(c) ==
    IF GuardBlocks
    THEN /\ initpc' = [initpc EXCEPT ![c] = "returned"]
         /\ UNCHANGED <<client, isClientInitializing, sess, nsess>>
    ELSE /\ isClientInitializing' = TRUE
         /\ IF client # NoClient
            THEN \* await client.destroy()
                 /\ initpc' = [initpc EXCEPT ![c] = "awaitDestroy"]
                 /\ UNCHANGED <<client, sess, nsess>>
            ELSE ConstructClient(c)

\* Mutant: the catch block forgets to release the guard (line 76).
CatchInitError_KeepsGuard(c) ==
    /\ isClientInitializing' = isClientInitializing
    /\ client' = NoClient
    /\ initpc' = [initpc EXCEPT ![c] = "returned"]

\* Lines 74-78: the catch block.
CatchInitError(c) ==
    /\ isClientInitializing' = FALSE
    /\ client' = NoClient
    /\ initpc' = [initpc EXCEPT ![c] = "returned"]

\* Line 177: the call at the end of the script.
Startup ==
    /\ initpc[StartupCall] = "new"
    /\ initializeWhatsAppClient(StartupCall)
    /\ emitted' = <<>>
    /\ UNCHANGED <<qrCodeContent, linkRes>>
    /\ UNCHANGED pipelineVars

LinkInitiated == [status |-> 200, body |-> [message |-> "Device linking initiated. QR code will be generated."]]
LinkAlready == [status |-> 200, body |-> [message |-> "QR code already generated. Scan to link the device."]]

\* Lines 166-168: the handler's continuation after `await initializeWhatsAppClient()`.
LinkRespondAfterInit(c) ==
    IF c \in LinkReqs
    THEN linkRes' = [linkRes EXCEPT ![c] = Append(@, LinkInitiated)]
    ELSE UNCHANGED linkRes

\* Mutant: the handler does not await initializeWhatsAppClient (line 165)
\* and answers at once.
LinkDevice_NoAwait(r) ==
    /\ Started
    /\ initpc[r] = "new"
    /\ r > 1 => initpc[r - 1] # "new"
    /\ IF qrCodeContent # NoQr
       THEN /\ emitted' = <<[type |-> "qr", payload |-> qrCodeContent]>>
            /\ linkRes' = [linkRes EXCEPT ![r] = Append(@, LinkAlready)]
            /\ initpc' = [initpc EXCEPT ![r] = "returned"]
            /\ UNCHANGED <<client, isClientInitializing, sess, nsess>>
       ELSE /\ emitted' = <<>>
            /\ initializeWhatsAppClient(r)
            /\ LinkRespondAfterInit(r)
    /\ UNCHANGED qrCodeContent
    /\ UNCHANGED pipelineVars

\* Mutant: the handler skips the test of line 156 and always initializes.
LinkDevice_IgnoresStoredQr(r) ==
    /\ Started
    /\ initpc[r] = "new"
    /\ r > 1 => initpc[r - 1] # "new"
    /\ emitted' = <<>>
    /\ initializeWhatsAppClient(r)
    /\ IF initpc'[r] = "returned"
       THEN LinkRespondAfterInit(r)
       ELSE UNCHANGED linkRes
    /\ UNCHANGED qrCodeContent
    /\ UNCHANGED pipelineVars

\* Lines 155-169: GET /link-device, up to its response or its suspension.
LinkDevice(r) ==
    /\ Started
    /\ initpc[r] = "new"
    /\ r > 1 => initpc[r - 1] # "new"      \* requests are numbered as they arrive
    /\ IF qrCodeContent # NoQr
       THEN /\ emitted' = <<[type |-> "qr", payload |-> qrCodeContent]>>
            /\ linkRes' = [linkRes EXCEPT ![r] = Append(@, LinkAlready)]
            /\ initpc' = [initpc EXCEPT ![r] = "returned"]
            /\ UNCHANGED <<client, isClientInitializing, sess, nsess>>
       ELSE /\ emitted' = <<>>
            /\ initializeWhatsAppClient(r)
            /\ IF initpc'[r] = "returned"
               THEN LinkRespondAfterInit(r)
               ELSE UNCHANGED linkRes
    /\ UNCHANGED qrCodeContent
    /\ UNCHANGED pipelineVars

\* The promise caller c is suspended on settles (ok: resolves, ~ok: rejects)
\* and initializeWhatsAppClient resumes: after `await client.destroy()`
\* (line 39) or after `await client.initialize()` (line 73).
\* initialize() may settle before or after the events of its Client (both
\* orders occur across library versions), but it does not reject once the
\* Client has emitted "ready": "ready" is the last thing a handshake does.
InitAwaitSettled(c, ok) ==
    /\ initpc[c] \in {"awaitDestroy", "awaitInitialize"}
    /\ emitted' = <<>>
    /\ UNCHANGED qrCodeContent
    /\ UNCHANGED pipelineVars
    /\ IF initpc[c] = "awaitDestroy"
       THEN IF ok
            THEN \* client = null; then lines 43-73
                 /\ ConstructClient(c)
                 /\ UNCHANGED <<isClientInitializing, linkRes>>
            ELSE /\ CatchInitError(c)
                 /\ LinkRespondAfterInit(c)
                 /\ UNCHANGED <<sess, nsess>>
       ELSE LET s == CHOOSE t \in Sessions : sess[t].caller = c /\ sess[t].init = "pending"
            IN  IF ok
                THEN /\ sess' = [sess EXCEPT ![s].init = "resolved"]
                     /\ initpc' = [initpc EXCEPT ![c] = "returned"]
                     /\ LinkRespondAfterInit(c)
                     /\ UNCHANGED <<client, isClientInitializing, nsess>>
                ELSE /\ ~sess[s].info
                     /\ sess' = [sess EXCEPT ![s].init = "rejected"]
                     /\ CatchInitError(c)
                     /\ LinkRespondAfterInit(c)
                     /\ UNCHANGED nsess

\* ---------------------------------------------------- client event handlers
\* A Client object emits events from the call of initialize() on, whether or
\* not index.js still refers to it: "qr" while it waits for the scan, then
\* "ready" or "auth_failure", and "disconnected" after "qr" or "ready".

\* Lines 46-50.
OnQr(s, qr) ==
    /\ Started
    /\ sess[s].phase \in {"starting", "qr"}
    /\ sess' = [sess EXCEPT ![s].phase = "qr"]
    /\ qrCodeContent' = qr
    /\ emitted' = <<[type |-> "qr", payload |-> qr]>>
    /\ UNCHANGED <<client, isClientInitializing, nsess, initpc, linkRes>>
    /\ UNCHANGED pipelineVars

\* Mutant: the handler forgets qrCodeContent = null (line 54).
OnReady_KeepsQr(s) ==
    /\ Started
    /\ sess[s].phase \in {"starting", "qr"}
    /\ sess' = [sess EXCEPT ![s].phase = "ready", ![s].info = TRUE]
    /\ emitted' = <<[type |-> "ready"]>>
    /\ UNCHANGED <<qrCodeContent, client, isClientInitializing, nsess, initpc, linkRes>>
    /\ UNCHANGED pipelineVars

\* Lines 52-56.
OnReady(s) ==
    /\ Started
    /\ sess[s].phase \in {"starting", "qr"}
    /\ sess' = [sess EXCEPT ![s].phase = "ready", ![s].info = TRUE]
    /\ qrCodeContent' = NoQr
    /\ emitted' = <<[type |-> "ready"]>>
    /\ UNCHANGED <<client, isClientInitializing, nsess, initpc, linkRes>>
    /\ UNCHANGED pipelineVars

AuthFailureMessage == "Authentication failed. Please re-scan the QR code."

\* Mutant: the handler forwards the library's error text to the observers.
OnAuthFailure_ForwardsMsg(s, msg) ==
    /\ Started
    /\ sess[s].phase \in {"starting", "qr"}
    /\ sess' = [sess EXCEPT ![s].phase = "auth_failure"]
    /\ qrCodeContent' = NoQr
    /\ emitted' = <<[type |-> "auth_failure", payload |-> msg]>>
    /\ UNCHANGED <<client, isClientInitializing, nsess, initpc, linkRes>>
    /\ UNCHANGED pipelineVars

\* Lines 58-65.  msg is the library's own error text.
OnAuthFailure(s, msg) ==
    /\ Started
    /\ sess[s].phase \in {"starting", "qr"}
    /\ sess' = [sess EXCEPT ![s].phase = "auth_failure"]
    /\ qrCodeContent' = NoQr
    /\ emitted' = <<[type |-> "auth_failure", payload |-> AuthFailureMessage]>>
    /\ UNCHANGED <<client, isClientInitializing, nsess, initpc, linkRes>>
    /\ UNCHANGED pipelineVars

\* Mutant: the handler forgets qrCodeContent = null (line 69).
OnDisconnected_KeepsQr(s) ==
    /\ Started
    /\ sess[s].phase \in {"qr", "ready"}
    /\ sess' = [sess EXCEPT ![s].phase = "disconnected"]
    /\ client' = NoClient
    /\ emitted' = <<>>
    /\ UNCHANGED <<qrCodeContent, isClientInitializing, nsess, initpc, linkRes>>
    /\ UNCHANGED pipelineVars

\* Lines 67-71.
OnDisconnected(s) ==
    /\ Started
    /\ sess[s].phase \in {"qr", "ready"}
    /\ sess' = [sess EXCEPT ![s].phase = "disconnected"]
    /\ qrCodeContent' = NoQr
    /\ client' = NoClient
    /\ emitted' = <<>>
    /\ UNCHANGED <<isClientInitializing, nsess, initpc, linkRes>>
    /\ UNCHANGED pipelineVars

\* ------------------------------------------------------ POST /send-messages
MissingInput == [status |-> 400, body |-> [error |-> "File and message are required."]]
NoNumbers == [status |-> 400, body |-> [error |-> "No valid mobile numbers found."]]
NotReady == [status |-> 500, body |-> [error |-> "WhatsApp client is not initialized or ready."]]
SendFailed == [status |-> 500, body |-> [error |-> "Failed to send messages."]]
SendOk == [status |-> 200, body |-> [message |-> "Messages sent successfully!"]]

\* res.status(..).json(..) of send request p, which ends the handler.
Respond(p, r) ==
    /\ sendRes' = [sendRes EXCEPT ![p] = Append(@, r)]
    /\ sendpc' = [sendpc EXCEPT ![p] = "done"]

\* Lines 129-135: one pass of the loop from its head to the suspension on
\* `await client.sendMessage(...)`, for the element at 0-based position i.
\* With client null the call expression throws a TypeError before anything
\* is handed to a Client object; the catch block (lines 148-151) answers.
\* An entry of sends: the recipient, the Client object the message was handed
\* to (NoClient: none) and the outcome of the promise.
IssueSend(p, nums, i) ==
    /\ index' = [index EXCEPT ![p] = i]
    /\ IF client = NoClient
       THEN /\ sends' = [sends EXCEPT ![p] =
                   Append(@, [to |-> nums[i + 1], via |-> NoClient, outcome |-> "threw"])]
            /\ Respond(p, SendFailed)
       ELSE /\ sends' = [sends EXCEPT ![p] =
                   Append(@, [to |-> nums[i + 1], via |-> client, outcome |-> "pending"])]
            /\ sendpc' = [sendpc EXCEPT ![p] = "awaitSend"]
            /\ UNCHANGED sendRes

\* Mutant: the readiness test (line 120) is made before the test for an
\* empty list (line 116).
PostSendMessages_ReadyFirst(p, file, message, nums) ==
    /\ Started
    /\ sendpc[p] = "new"
    /\ p > 1 => sendpc[p - 1] # "new"
    /\ emitted' = <<>>
    /\ UNCHANGED sessionVars
    /\ UNCHANGED <<linkRes, delays>>
    /\ IF ~file \/ ~message
       THEN Respond(p, MissingInput) /\ UNCHANGED <<mobileNumbers, index, sends>>
       ELSE IF ~Ready
       THEN Respond(p, NotReady) /\ UNCHANGED <<mobileNumbers, index, sends>>
       ELSE IF Len(nums) = 0
       THEN Respond(p, NoNumbers) /\ UNCHANGED <<mobileNumbers, index, sends>>
       ELSE /\ mobileNumbers' = [mobileNumbers EXCEPT ![p] = nums]
            /\ IssueSend(p, nums, 0)

\* Lines 106-135: the handler from the request to its first suspension point
\* or to its response.  file, message: whether the request carries them;
\* nums: what parseExcelFile returns for the file.
PostSendMessages(p, file, message, nums) ==
    /\ Started
    /\ sendpc[p] = "new"
    /\ p > 1 => sendpc[p - 1] # "new"      \* requests are numbered as they arrive
    /\ emitted' = <<>>
    /\ UNCHANGED sessionVars
    /\ UNCHANGED <<linkRes, delays>>
    /\ IF ~file \/ ~message
       THEN Respond(p, MissingInput) /\ UNCHANGED <<mobileNumbers, index, sends>>
       ELSE IF Len(nums) = 0
       THEN Respond(p, NoNumbers) /\ UNCHANGED <<mobileNumbers, index, sends>>
       ELSE IF ~Ready
       THEN Respond(p, NotReady) /\ UNCHANGED <<mobileNumbers, index, sends>>
       ELSE /\ mobileNumbers' = [mobileNumbers EXCEPT ![p] = nums]
            /\ IssueSend(p, nums, 0)

\* Mutant: the test of line 139 is off by one (index < length - 2).
SendSettled_OffByOne(p, ok) ==
    /\ sendpc[p] = "awaitSend"
    /\ emitted' = <<>>
    /\ UNCHANGED sessionVars
    /\ UNCHANGED <<linkRes, mobileNumbers, index>>
    /\ sends' = [sends EXCEPT ![p][Len(sends[p])].outcome = IF ok THEN "sent" ELSE "failed"]
    /\ IF ~ok
       THEN Respond(p, SendFailed) /\ UNCHANGED delays
       ELSE IF index[p] < Len(mobileNumbers[p]) - 2
       THEN /\ delays' = [delays EXCEPT ![p] = Append(@, DelayMs)]
            /\ sendpc' = [sendpc EXCEPT ![p] = "awaitDelay"]
            /\ UNCHANGED sendRes
       ELSE Respond(p, SendOk) /\ UNCHANGED delays

\* Mutant: a rejected sendMessage is swallowed and the loop goes on.
SendSettled_SwallowsError(p, ok) ==
    /\ sendpc[p] = "awaitSend"
    /\ emitted' = <<>>
    /\ UNCHANGED sessionVars
    /\ UNCHANGED <<linkRes, mobileNumbers, index>>
    /\ sends' = [sends EXCEPT ![p][Len(sends[p])].outcome = IF ok THEN "sent" ELSE "failed"]
    /\ IF index[p] < Len(mobileNumbers[p]) - 1
       THEN /\ delays' = [delays EXCEPT ![p] = Append(@, DelayMs)]
            /\ sendpc' = [sendpc EXCEPT ![p] = "awaitDelay"]
            /\ UNCHANGED sendRes
       ELSE Respond(p, SendOk) /\ UNCHANGED delays

\* Mutant: the catch block answers 200 (lines 147 and 150 swapped).
SendSettled_Answers200(p, ok) ==
    /\ sendpc[p] = "awaitSend"
    /\ emitted' = <<>>
    /\ UNCHANGED sessionVars
    /\ UNCHANGED <<linkRes, mobileNumbers, index>>
    /\ sends' = [sends EXCEPT ![p][Len(sends[p])].outcome = IF ok THEN "sent" ELSE "failed"]
    /\ IF ~ok
       THEN Respond(p, SendOk) /\ UNCHANGED delays
       ELSE IF index[p] < Len(mobileNumbers[p]) - 1
       THEN /\ delays' = [delays EXCEPT ![p] = Append(@, DelayMs)]
            /\ sendpc' = [sendpc EXCEPT ![p] = "awaitDelay"]
            /\ UNCHANGED sendRes
       ELSE Respond(p, SendOk) /\ UNCHANGED delays

\* Mutant: the loop does not await the delay (line 143) and calls the next
\* sendMessage in the same step.
SendSettled_NoDelay(p, ok) ==
    /\ sendpc[p] = "awaitSend"
    /\ emitted' = <<>>
    /\ UNCHANGED sessionVars
    /\ UNCHANGED <<linkRes, mobileNumbers, delays>>
    /\ IF ~ok
       THEN /\ sends' = [sends EXCEPT ![p][Len(sends[p])].outcome = "failed"]
            /\ Respond(p, SendFailed) /\ UNCHANGED index
       ELSE IF index[p] < Len(mobileNumbers[p]) - 1
       THEN /\ index' = [index EXCEPT ![p] = @ + 1]
            /\ sends' = [sends EXCEPT ![p] = Append(
                   [@ EXCEPT ![Len(sends[p])].outcome = "sent"],
                   [to |-> mobileNumbers[p][index[p] + 2], via |-> client, outcome |-> "pending"])]
            /\ UNCHANGED <<sendpc, sendRes>>
       ELSE /\ sends' = [sends EXCEPT ![p][Len(sends[p])].outcome = "sent"]
            /\ Respond(p, SendOk) /\ UNCHANGED index

\* Mutant: the catch block only logs the error (line 150 is missing) and the
\* handler ends without a response.
SendSettled_CatchSilent(p, ok) ==
    /\ sendpc[p] = "awaitSend"
    /\ emitted' = <<>>
    /\ UNCHANGED sessionVars
    /\ UNCHANGED <<linkRes, mobileNumbers, index>>
    /\ sends' = [sends EXCEPT ![p][Len(sends[p])].outcome = IF ok THEN "sent" ELSE "failed"]
    /\ IF ~ok
       THEN /\ sendpc' = [sendpc EXCEPT ![p] = "done"]
            /\ UNCHANGED <<sendRes, delays>>
       ELSE IF index[p] < Len(mobileNumbers[p]) - 1
       THEN /\ delays' = [delays EXCEPT ![p] = Append(@, DelayMs)]
            /\ sendpc' = [sendpc EXCEPT ![p] = "awaitDelay"]
            /\ UNCHANGED sendRes
       ELSE Respond(p, SendOk) /\ UNCHANGED delays

\* The promise of client.sendMessage settles and the loop resumes
\* (lines 135-151): resolved, it delays unless this was the last element and
\* then answers 200; rejected, the catch block answers 500.
SendSettled(p, ok) ==
    /\ sendpc[p] = "awaitSend"
    /\ emitted' = <<>>
    /\ UNCHANGED sessionVars
    /\ UNCHANGED <<linkRes, mobileNumbers, index>>
    /\ sends' = [sends EXCEPT ![p][Len(sends[p])].outcome = IF ok THEN "sent" ELSE "failed"]
    /\ IF ~ok
       THEN Respond(p, SendFailed) /\ UNCHANGED delays
       ELSE IF index[p] < Len(mobileNumbers[p]) - 1
       THEN /\ delays' = [delays EXCEPT ![p] = Append(@, DelayMs)]
            /\ sendpc' = [sendpc EXCEPT ![p] = "awaitDelay"]
            /\ UNCHANGED sendRes
       ELSE Respond(p, SendOk) /\ UNCHANGED delays

\* The timer of delay(15000) fires and the loop takes its next element.
DelayElapsed(p) ==
    /\ sendpc[p] = "awaitDelay"
    /\ emitted' = <<>>
    /\ UNCHANGED sessionVars
    /\ UNCHANGED <<linkRes, mobileNumbers, delays>>
    /\ IssueSend(p, mobileNumbers[p], index[p] + 1)

BackendErrors == {"LOGOUT", "session expired"}

\* ------------------------------------------------------------ properties
\* The calls of initializeWhatsAppClient that are suspended inside it.
InProgress == {c \in Callers : initpc[c] \in {"awaitDestroy", "awaitInitialize"}}
\* The Client objects whose initialize() promise has not settled.
PendingHandshakes == {s \in Sessions : sess[s].init = "pending"}

\* `client` is only ever set while the guard is held, so the teardown of
\* lines 37-41 never runs: no call reaches `await client.destroy()`.
ClientImpliesGuard ==
    /\ client # NoClient => isClientInitializing
    /\ \A c \in Callers : initpc[c] # "awaitDestroy"

\* C1: at most one initialization is in progress at any time, and at most
\* one handshake (initialize() promise) is unsettled: a call made while
\* another is in progress starts no second handshake.
C1_AtMostOneInitialization ==
    /\ Cardinality(InProgress) <= 1
    /\ Cardinality(PendingHandshakes) <= 1

\* C1 witness: GET /link-device called initializeWhatsAppClient while the
\* startup call was still suspended on its handshake, and one Client exists.
C1_Witness ==
    /\ initpc[StartupCall] = "awaitInitialize"
    /\ \E r \in LinkReqs : initpc[r] = "returned" /\ linkRes[r] = <<LinkInitiated>>
    /\ nsess = 1

\* C2 (as claimed): after the session became Ready and was then disconnected
\* (state Absent, no initialization in progress), a GET /link-device that
\* calls requestInitialize() begins an initialization: it constructs a new
\* Client object and starts its handshake.
C2_FreshInitializeStartsHandshake ==
    [][\A r \in LinkReqs :
         ( /\ initpc[r] = "new" /\ initpc'[r] # "new"
           /\ qrCodeContent = NoQr
           /\ State = "Absent"
           /\ InProgress = {}
           /\ \E s \in Sessions : sess[s].phase = "disconnected" /\ sess[s].info )
         => (nsess' = nsess + 1 /\ initpc'[r] = "awaitInitialize")]_vars

\* A run of the send loop: a request that passed the checks of lines 109-124.
Runs == {p \in SendReqs : Len(mobileNumbers[p]) >= 1}
\* The recipients of the sendMessage calls of request p, in call order.
SentTo(p) == [i \in 1..Len(sends[p]) |-> sends[p][i].to]
\* n delays of 15000 ms.
DelaysOf(n) == [i \in 1..n |-> DelayMs]
\* The positions of the sendMessage calls of p that failed (rejected or threw).
FailedAt(p) == {k \in 1..Len(sends[p]) : sends[p][k].outcome \in {"failed", "threw"}}
\* The sendMessage calls of p that resolved.
SentCount(p) == Cardinality({k \in 1..Len(sends[p]) : sends[p][k].outcome = "sent"})

\* C3: a finished run over N >= 1 recipients in which every send succeeded
\* made exactly N sends, one per recipient in input order, exactly N-1
\* delays of 15000 ms, and answered 200.
C3_SuccessfulRun ==
    \A p \in Runs :
        (sendpc[p] = "done" /\ FailedAt(p) = {})
        => /\ SentTo(p) = mobileNumbers[p]
           /\ delays[p] = DelaysOf(Len(mobileNumbers[p]) - 1)
           /\ SentCount(p) = Len(mobileNumbers[p])
           /\ sendRes[p] = <<SendOk>>

\* C3 witness: a finished run over the longest list with every send sent.
C3_Witness ==
    \E p \in Runs :
        /\ sendpc[p] = "done" /\ FailedAt(p) = {}
        /\ Len(mobileNumbers[p]) = MaxRecipients
        /\ Len(delays[p]) = MaxRecipients - 1

\* C4: once the k-th send of a run has failed, the run has made exactly k
\* sends (to the first k recipients), made k-1 delays (none after the failed
\* send), is over and has answered 500; this stays so, so no send follows.
C4_StopsAtFirstFailure ==
    \A p \in Runs : \A k \in FailedAt(p) :
        /\ Len(sends[p]) = k
        /\ SentTo(p) = SubSeq(mobileNumbers[p], 1, k)
        /\ delays[p] = DelaysOf(k - 1)
        /\ sendpc[p] = "done"
        /\ Len(sendRes[p]) = 1 /\ sendRes[p][1].status = 500

\* C4 witness: the first send of a run over several recipients failed.
C4_Witness ==
    \E p \in Runs : 1 \in FailedAt(p) /\ Len(mobileNumbers[p]) > 1 /\ sendpc[p] = "done"

\* The keys of the JSON body request p was answered with.
ResponseKeys(p) == IF sendRes[p] = <<>> THEN {} ELSE DOMAIN sendRes[p][1].body

\* C5 (as claimed): when the k-th send fails the result reports
\* sentCount = k-1 and a firstFailure referencing recipient k.
C5_ReportsPartialCount ==
    \A p \in Runs : \A k \in FailedAt(p) :
        /\ "sentCount" \in ResponseKeys(p)
        /\ sendRes[p][1].body.sentCount = k - 1
        /\ "firstFailure" \in ResponseKeys(p)
        /\ sendRes[p][1].body.firstFailure.recipient = mobileNumbers[p][k]

\* C5 (amended): when the k-th send fails, exactly the first k-1 sends have
\* succeeded, and the response is the generic 500 "Failed to send messages.",
\* which reports neither a sentCount nor a firstFailure.
C5_GenericFailure ==
    \A p \in Runs : \A k \in FailedAt(p) :
        /\ SentCount(p) = k - 1
        /\ \A i \in 1..(k - 1) : sends[p][i].outcome = "sent"
        /\ sendRes[p] = <<SendFailed>>
        /\ sendRes[p][1].status = 500
        /\ ResponseKeys(p) = {"error"}

\* C5 witness: the second send of a run failed after the first was sent.
C5_Witness ==
    \E p \in Runs : 2 \in FailedAt(p) /\ SentCount(p) = 1 /\ sendRes[p] # <<>>

\* C6: a sendMessage call is handed to a Client object only while the
\* session is Ready (the current Client has its info); a send attempted
\* while it is not Ready hands nothing over, fails, and ends the run with 500.
C6_SendOnlyWhileReady ==
    [][\A p \in SendReqs :
         Len(sends'[p]) > Len(sends[p])
         => LET e == sends'[p][Len(sends'[p])]
            IN  IF State = "Ready"
                THEN e.via = client /\ e.outcome = "pending"
                ELSE /\ e.via = NoClient /\ e.outcome = "threw"
                     /\ sendpc'[p] = "done"
                     /\ sendRes'[p] = <<SendFailed>>]_vars

\* C6 witness: the session was disconnected during a delay, and the next
\* send of the run was attempted with no Client and failed.
C6_Witness ==
    \E p \in Runs :
        /\ Len(sends[p]) = 2
        /\ sends[p][1].outcome = "sent" /\ sends[p][1].via # NoClient
        /\ sends[p][2].outcome = "threw" /\ sends[p][2].via = NoClient
        /\ State # "Ready"

\* Caller c's handshake is rejected in this step.
HandshakeThrows(c) ==
    \E s \in Sessions :
        sess[s].caller = c /\ sess[s].init = "pending" /\ sess'[s].init = "rejected"
\* GET /link-device request r is handled in this step.
LinkHandled(r) == initpc[r] = "new" /\ initpc'[r] # "new"

\* C7: when the handshake throws, the error is caught: the call returns, the
\* guard is released, the Client object is discarded and the state is
\* Absent; this stays so until the next initialization (never stuck in
\* Initializing), and a later requestInitialize() made with the guard
\* released is not ignored: it starts a new handshake.
C7_InitErrorRecovered ==
    /\ [](nsess >= 1 /\ sess[nsess].init = "rejected"
            => /\ ~isClientInitializing
               /\ client = NoClient
               /\ State = "Absent"
               /\ InProgress = {})
    /\ [][ /\ \A c \in Callers :
                HandshakeThrows(c)
                => /\ initpc'[c] = "returned"
                   /\ ~isClientInitializing'
                   /\ client' = NoClient
           /\ \A r \in LinkReqs :
                (LinkHandled(r) /\ qrCodeContent = NoQr /\ ~isClientInitializing)
                => (nsess' = nsess + 1 /\ initpc'[r] = "awaitInitialize"
                    /\ sess'[nsess'].init = "pending") ]_vars

\* C7 witness: the startup handshake threw, and a later GET /link-device
\* started the handshake of a second Client object.
C7_Witness ==
    /\ nsess = 2
    /\ sess[1].init = "rejected"
    /\ \E r \in LinkReqs : initpc[r] = "awaitInitialize" /\ sess[2].caller = r
    /\ isClientInitializing

\* The handshakes that GET /link-device request r started.
StartedBy(r) == {s \in Sessions : sess[s].caller = r}

\* C8 (as claimed): a GET /link-device that triggered requestInitialize()
\* has its 200 without waiting: while the handshake it started is in
\* progress, the request is already answered.
C8_RespondsWithoutWaiting ==
    \A r \in LinkReqs : initpc[r] = "awaitInitialize" => linkRes[r] = <<LinkInitiated>>

\* C8 (amended): GET /link-device answers 200 only when requestInitialize()
\* has returned: while the handshake it started is in progress the request
\* is unanswered, and once it is answered that handshake has resolved or
\* thrown.
C8_RespondsAfterHandshake ==
    \A r \in LinkReqs :
        /\ initpc[r] = "awaitInitialize" => linkRes[r] = <<>>
        /\ linkRes[r] # <<>>
           => /\ Len(linkRes[r]) = 1 /\ linkRes[r][1].status = 200
              /\ \A s \in StartedBy(r) : sess[s].init \in {"resolved", "rejected"}

\* C8 witness: a request that started a handshake was answered "initiated"
\* after that handshake resolved.
C8_Witness ==
    \E r \in LinkReqs :
        /\ linkRes[r] = <<LinkInitiated>>
        /\ \E s \in StartedBy(r) : sess[s].init = "resolved"

\* C9: GET /link-device made while a payload is stored emits exactly one qr
\* event carrying the stored payload, answers 200, and changes neither the
\* Client objects, the guard nor the stored payload, and starts no handshake.
C9_ResendLeavesSession ==
    [][\A r \in LinkReqs :
         (LinkHandled(r) /\ qrCodeContent # NoQr)
         => /\ emitted' = <<[type |-> "qr", payload |-> qrCodeContent]>>
            /\ linkRes'[r] = <<LinkAlready>> /\ LinkAlready.status = 200
            /\ initpc'[r] = "returned"
            /\ UNCHANGED <<client, isClientInitializing, qrCodeContent, sess, nsess>>]_vars

\* C9 witness: a request was answered "already generated" and the stored
\* payload was emitted again.
C9_Witness ==
    /\ qrCodeContent # NoQr
    /\ \E r \in LinkReqs : linkRes[r] = <<LinkAlready>>
    /\ emitted = <<[type |-> "qr", payload |-> qrCodeContent]>>

\* C10: the handler of a disconnect event leaves the stored payload absent
\* and `client` dropped; and GET /link-device made while the payload is
\* absent emits no qr event.
C10_DisconnectClearsPayload ==
    [][ /\ \A s \in Sessions :
             (sess[s].phase # "disconnected" /\ sess'[s].phase = "disconnected")
             => (qrCodeContent' = NoQr /\ client' = NoClient /\ State' = "Absent")
        /\ \A r \in LinkReqs :
             (LinkHandled(r) /\ qrCodeContent = NoQr) => emitted' = <<>> ]_vars

\* C10 witness: a Client that had shown a QR code was disconnected, and the
\* GET /link-device that followed found no payload and emitted nothing.
C10_Witness ==
    /\ \E s \in Sessions : sess[s].phase = "disconnected"
    /\ qrCodeContent = NoQr /\ client = NoClient
    /\ \E r \in LinkReqs : linkRes[r] = <<LinkInitiated>>
    /\ emitted = <<>>

\* C11: a send request that carries a file and a message and whose extracted
\* list is empty is answered 400 "No valid mobile numbers found." whatever
\* the session state, and makes no send and no delay: the test for an empty
\* list comes before the readiness test.
C11_EmptyListRejected ==
    [][\A p \in SendReqs :
         PostSendMessages(p, TRUE, TRUE, <<>>)
         => /\ sendRes'[p] = <<NoNumbers>>
            /\ NoNumbers.status = 400
            /\ NoNumbers.body.error = "No valid mobile numbers found."
            /\ sendpc'[p] = "done"
            /\ sends'[p] = <<>> /\ delays'[p] = <<>>]_vars

\* C11 witness: a request with an empty list was answered 400 "No valid
\* mobile numbers found." while the session was not Ready.
C11_Witness ==
    \E p \in SendReqs :
        sendRes[p] = <<NoNumbers>> /\ State # "Ready" /\ sends[p] = <<>>

\* C12: a send request with a non-empty list made while the session is not
\* Ready (Absent, Initializing or AwaitingScan) is answered 500 "WhatsApp
\* client is not initialized or ready." and makes no send and no delay.
C12_NotReadyRejected ==
    [][\A p \in SendReqs : \A nums \in NumberLists \ {<<>>} :
         (PostSendMessages(p, TRUE, TRUE, nums) /\ State # "Ready")
         => /\ sendRes'[p] = <<NotReady>>
            /\ NotReady.status = 500
            /\ sendpc'[p] = "done"
            /\ sends'[p] = <<>> /\ delays'[p] = <<>>]_vars

\* C12 witness: a request was answered "not initialized or ready" after the
\* session had been Ready and was disconnected.
C12_Witness ==
    \E p \in SendReqs :
        /\ sendRes[p] = <<NotReady>> /\ sends[p] = <<>> /\ delays[p] = <<>>
        /\ client = NoClient
        /\ \E s \in Sessions : sess[s].info /\ sess[s].phase = "disconnected"

\* C13: the handler of an authentication failure clears the stored payload
\* and emits exactly one auth_failure event whose payload is the fixed
\* message; the step does not depend on the library's error text: a step
\* taken with one error text is the step taken with any other.
C13_AuthFailureMessageFixed ==
    [][\A s \in Sessions : \A msg \in BackendErrors :
         OnAuthFailure(s, msg)
         => /\ qrCodeContent' = NoQr
            /\ emitted' = <<[type |-> "auth_failure",
                             payload |-> "Authentication failed. Please re-scan the QR code."]>>
            /\ \A other \in BackendErrors : OnAuthFailure(s, other)]_vars

\* C13 witness: an authentication failure was just handled: the payload is
\* absent and the auth_failure event is the one emitted.
C13_Witness ==
    /\ \E s \in Sessions : sess[s].phase = "auth_failure"
    /\ qrCodeContent = NoQr
    /\ Len(emitted) = 1 /\ emitted[1].type = "auth_failure"

\* The delays of request p whose timer has fired.
ElapsedDelays(p) == IF sendpc[p] = "awaitDelay" THEN Len(delays[p]) - 1 ELSE Len(delays[p])
\* The sendMessage calls of request p whose promise has not settled.
InFlight(p) == {k \in 1..Len(sends[p]) : sends[p][k].outcome = "pending"}

\* C14: within one run at most one send is in flight, and when the send to
\* recipient i+1 is issued the send to recipient i has resolved and the
\* delay that follows it has elapsed.
C14_SendsSerialized ==
    \A p \in SendReqs :
        /\ Cardinality(InFlight(p)) <= 1
        /\ \A k \in 1..(Len(sends[p]) - 1) : sends[p][k].outcome = "sent"
        /\ Len(sends[p]) <= ElapsedDelays(p) + 1
        /\ sendpc[p] = "awaitDelay" => InFlight(p) = {}

\* C14 witness: the second send of a run is in flight after the first
\* resolved and one delay elapsed.
C14_Witness ==
    \E p \in SendReqs :
        /\ Len(sends[p]) = 2 /\ InFlight(p) = {2}
        /\ sends[p][1].outcome = "sent"
        /\ ElapsedDelays(p) = 1

\* C15: a requestInitialize() made while an initialization is in progress is
\* ignored: it returns at once, changes neither the Client objects, the
\* guard nor the stored payload, leaves the suspended call where it is, and
\* a call that has returned never starts a handshake later.
C15_CallInProgressIgnored ==
    [][\A r \in LinkReqs :
         /\ (LinkHandled(r) /\ qrCodeContent = NoQr /\ InProgress # {})
            => /\ initpc'[r] = "returned"
               /\ \A c \in Callers \ {r} : initpc'[c] = initpc[c]
               /\ UNCHANGED <<client, isClientInitializing, qrCodeContent, sess, nsess>>
         /\ initpc[r] = "returned"
            => {s \in Sessions : sess'[s].caller = r} = StartedBy(r)]_vars

\* C15 witness: a GET /link-device called requestInitialize() while the
\* startup handshake was pending and started nothing; the startup call is
\* still suspended on its handshake.
C15_Witness ==
    \E r \in LinkReqs :
        /\ initpc[r] = "returned" /\ StartedBy(r) = {}
        /\ linkRes[r] = <<LinkInitiated>>
        /\ InProgress = {StartupCall}
        /\ PendingHandshakes = {1} /\ client = 1 /\ isClientInitializing

\* Request p is answered with a failure in this step.
PipelineFails(p) ==
    /\ sendRes'[p] # sendRes[p]
    /\ sendRes'[p][Len(sendRes'[p])].status # 200

\* C16: a qr event with payload q stores q and emits exactly one qr event
\* carrying q; a ready event clears the stored payload and emits exactly one
\* ready event; a disconnect event emits nothing; a send request that fails
\* emits nothing.
C16_EventsRelayed ==
    [][ /\ \A s \in Sessions : \A q \in QrCodes :
             OnQr(s, q) => (qrCodeContent' = q /\ emitted' = <<[type |-> "qr", payload |-> q]>>)
        /\ \A s \in Sessions :
             OnReady(s) => (qrCodeContent' = NoQr /\ emitted' = <<[type |-> "ready"]>>)
        /\ \A s \in Sessions : OnDisconnected(s) => emitted' = <<>>
        /\ \A p \in SendReqs : PipelineFails(p) => emitted' = <<>> ]_vars

\* C16 witness: a ready event of the current Client was just relayed: the
\* payload is absent and the ready event is the one emitted.
C16_Witness ==
    /\ emitted = <<[type |-> "ready"]>>
    /\ qrCodeContent = NoQr
    /\ \E s \in Sessions : sess[s].phase = "ready" /\ client = s

\* The sends in flight in the whole process: (request, position) pairs.
AllInFlight == {pk \in OverlapSendReqs \X (1..MaxRecipients) : pk[2] \in InFlight(pk[1])}

\* C17 (as claimed): when send requests overlap, at most one send is in
\* flight in the process at any time.
C17_OneSendInFlight == Cardinality(AllInFlight) <= 1

\* Client s was dropped by the catch block: its handshake threw.
Discarded(s) == sess[s].init = "rejected"
\* One of the four handlers registered on Client s runs in this step.
EventOf(s) ==
    \/ \E q \in QrCodes : OnQr(s, q)
    \/ OnReady(s)
    \/ \E msg \in BackendErrors : OnAuthFailure(s, msg)
    \/ OnDisconnected(s)

\* C18 (as claimed): an event of a discarded Client object, emitted while a
\* later Client object is the current one, changes neither `client` nor the
\* stored payload.
C18_DiscardedEventsIgnored ==
    [][\A s \in Sessions :
         (Discarded(s) /\ client # NoClient /\ client # s /\ EventOf(s))
         => (client' = client /\ qrCodeContent' = qrCodeContent)]_vars

\* C19 (as claimed): a stored payload implies that a Client object is
\* current and is not Ready.
C19_PayloadImpliesAwaitingScan ==
    qrCodeContent # NoQr => (client # NoClient /\ State # "Ready")

\* C20: a send request has no response while its handler runs and exactly
\* one once the handler is over, on every path; and, every issued send
\* settling and every delay elapsing, a request that was received is
\* eventually over (and so answered).
C20_OneResponseAndTermination ==
    /\ [](\A p \in SendReqs :
            /\ Len(sendRes[p]) <= 1
            /\ sendpc[p] = "done" <=> Len(sendRes[p]) = 1)
    /\ \A p \in SendReqs : (sendpc[p] # "new") ~> (sendpc[p] = "done")

\* C20 witness: a request that went through a delay is over and has its
\* one response.
C20_Witness ==
    \E p \in SendReqs :
        sendpc[p] = "done" /\ Len(sendRes[p]) = 1 /\ Len(delays[p]) >= 1

\* A step of the session: the startup call, GET /link-device, a settled
\* handshake, or an event of a Client object.
SessionStep ==
    \/ Startup
    \/ \E r \in LinkReqs : LinkDevice(r)
    \/ \E c \in Callers, ok \in BOOLEAN : InitAwaitSettled(c, ok)
    \/ \E s \in Sessions, qr \in QrCodes : OnQr(s, qr)
    \/ \E s \in Sessions : OnReady(s)
    \/ \E s \in Sessions, msg \in BackendErrors : OnAuthFailure(s, msg)
    \/ \E s \in Sessions : OnDisconnected(s)

\* A step of one of the send requests P.
PipelineStep(P) ==
    \/ \E p \in P, file \in BOOLEAN, message \in BOOLEAN, nums \in NumberLists :
          PostSendMessages(p, file, message, nums)
    \/ \E p \in P, ok \in BOOLEAN : SendSettled(p, ok)
    \/ \E p \in P : DelayElapsed(p)

Next == SessionStep \/ PipelineStep(SendReqs)

Spec == Init /\ [][Next]_vars

\* Every sendMessage promise settles and every delay timer fires.
SendsSettle ==
    \A p \in SendReqs :
        /\ WF_vars(\E ok \in BOOLEAN : SendSettled(p, ok))
        /\ WF_vars(DelayElapsed(p))

SpecLive == Spec /\ SendsSettle

\* The same program with one more POST /send-messages request.
NextOverlap == SessionStep \/ PipelineStep(OverlapSendReqs)

SpecOverlap == Init /\ [][NextOverlap]_vars

====
